---- MODULE Spec2Model ----
(***************************************************************************)
(* Position lifecycle and compounding-balance state machine of the         *)
(* ux-solsniper bot (src/sniper.py, src/utils.py).                         *)
(*                                                                         *)
(* Money is an integer number of 1/10000 USD (floats of the source are     *)
(* modelled as integers, divisions round down).  Python None is the value  *)
(* None below; every "is None" test of the source is an explicit test      *)
(* against it.                                                             *)
(***************************************************************************)
EXTENDS Integers, Sequences, FiniteSets, TLC

\* ---------------------------------------------------------------- bounds
MaxMsgs == 2      \* discovery messages delivered by the Telegram feed
MaxDay  == 1      \* day boundaries that pass during a run
MaxSaves == 3     \* writes of position_state.json started during a run
MaxCycle == 3     \* value of the cycle counter up to which updates are followed

\* ------------------------------------------------- configuration (t.env)
None == -1
DAILY_CAPITAL_USD  == 100000     \* 10 USD
BUY_FEE_PERCENT    == 1
SELL_FEE_PERCENT   == 1
STOP_LOSS          == -20
TAKE_PROFIT        == 40
MAX_BUYS_PER_DAY   == 1
DEMO_BALANCE       == 200000     \* 20 USD
MAX_MCAP_LIQ_RATIO == 10
LamportsPerUnit    == 5          \* SOL at 200 USD: 1/10000 USD = 500 lamports,
                                 \* lamports counted in hundreds

CAs == {"a", "b"}
EnvValues == {"unset", "0", "1", "true"}     \* os.environ["DRY_RUN"]

\* -------------------------------------------------- oracle / gateway inputs
EntryPrices   == {None, 10}          \* priceUsd reported when the CA is processed
EntryMcaps    == {0, 100}            \* mcap_val (0.0 when the oracle has none)
Liquidities   == {0, 5, 50}
SellTaxes     == {0, 5}
SamplePrices  == {None, 8, 10, 14}   \* priceUsd of one monitor poll
SampleMcaps   == {None, 80, 100, 140}
OutUsdVals    == {80000, 240000}     \* USD value of the sell order's outAmount
Attempts      == 1..3                \* range(1, 4) of both retry loops
BuyOutcomes   == {"success", "failed"}   \* of one order+execute attempt
OrderOutcomes == {"invalid", "raise"}   \* failures of the sell order fetch
ExecOutcomes  == {"success", "failed"}   \* of one execute attempt of a sell
NotifyOutcomes == {"ok", "false", "raise"}   \* of one send_telegram_message call

Abs(x) == IF x < 0 THEN -x ELSE x

VARIABLES
    envDryRun,      \* the DRY_RUN environment variable
    msgs,           \* number of discovery messages handled so far
    queue,          \* _pending_cas
    processed,      \* keys of processed_cas.json
    records,        \* trade_records.json: ca -> [buy, sell] (<<>> = key absent)
    posState,       \* position_state.json
    daily_trades,   \* sniper.daily_trades
    today,          \* date.today()
    lastCycleDate,  \* sniper._last_cycle_date
    SIM_STATE,      \* sniper.SIM_STATE
    SIM_LOCK,       \* sniper.SIM_LOCK (asyncio.Lock): _locked, _waiters, and
                    \* whether a task ever awaited while holding it
    w,              \* process_pending_cas: position in the loop and its locals
    monitors,       \* running monitor_position tasks, in creation order
    buyStarted,     \* ca -> number of execute_jupiter_swap_from_quote calls started
    buyExecuted,    \* ca -> number of buy swaps executed (live success or fabricated)
    lastPoll,       \* sample and decision of the poll by which the last step
                    \* left a monitoring loop (NoPoll after any other step)
    lastEnd,        \* the monitor task the last step finished (NoEnd otherwise);
                    \* requested: the step sent a request to the order or
                    \* execute endpoint of the swap provider; notify / sent:
                    \* outcome and number of the send_telegram_message calls
                    \* of the step; orders: order requests made by a swap or
                    \* sell call of the step in which no attempt succeeded;
                    \* cancel: the task the step cancelled while its execute
                    \* request was in flight
    fs              \* position_state.json as text on disk while it is written,
                    \* the process (idle / writing / crashed) and what
                    \* load_position_state returned after the last restart
                    \* (in SpecCompound: inside the last update_compound_balance)

vars == <<envDryRun, msgs, queue, processed, records, posState, daily_trades,
          today, lastCycleDate, SIM_STATE, SIM_LOCK, w, monitors,
          buyStarted, buyExecuted, lastPoll, lastEnd, fs>>

\* ------------------------------------------------------ DRY_RUN readings
\* sniper.py:792  DRY_RUN = os.getenv("DRY_RUN", "0").lower() in ("1","true","yes")
SniperDryRun == envDryRun \in {"1", "true"}
\* utils.py:808   DRY_RUN = bool(int(os.getenv("DRY_RUN", "0")))
BuyEnvRaises == envDryRun = "true"
BuyDryRun == envDryRun = "1"
\* sniper.py:925  DRY_RUN = bool(int(os.getenv("DRY_RUN", "1")))
SellDryRun == envDryRun \in {"1", "unset"}

\* ------------------------------------------------------------- utils.py
is_ca_processed(ca) == ca \in processed

is_buy_allowed == TRUE

usd_to_lamports(usd) == usd * LamportsPerUnit

lamports_to_usd(lamports) == lamports \div LamportsPerUnit

load_position_state_default ==
    [current_balance_usd |-> 0, cycle |-> 0, last_daily_capital |-> None]

update_compound_balance_keeps(st, profit) ==
    [current_balance_usd |-> st.current_balance_usd + profit,
     cycle               |-> st.cycle + 1,
     last_daily_capital  |-> DAILY_CAPITAL_USD]

\* update_compound_balance(after_profit_usd=profit) applied to the state st
update_compound_balance(st, profit) ==
    LET base == IF st.last_daily_capital # DAILY_CAPITAL_USD
                THEN [current_balance_usd |-> 0, cycle |-> 0,
                      last_daily_capital |-> DAILY_CAPITAL_USD]
                ELSE st
    IN [current_balance_usd |-> base.current_balance_usd + profit,
        cycle               |-> base.cycle + 1,
        last_daily_capital  |-> DAILY_CAPITAL_USD]

\* the "buy" entry written by record_buy; no caller passes price_usd
BuyEntry(market_cap, gross, net) ==
    [market_cap       |-> IF market_cap # 0 THEN market_cap ELSE None,
     price_usd        |-> None,
     usd_amount_gross |-> gross,
     usd_amount_net   |-> net]

record_buy(recs, ca, market_cap, gross, net) ==
    [recs EXCEPT ![ca].buy = <<BuyEntry(market_cap, gross, net)>>]

\* profit computed by record_sell: float(None) raises for a missing
\* market_cap / price_usd of the buy entry and the handler sets profit = None
SellProfit(recs, ca, net) ==
    IF recs[ca].buy = <<>> THEN None
    ELSE LET b == recs[ca].buy[1]
         IN IF b.market_cap = None \/ b.price_usd = None THEN None
            ELSE net - b.usd_amount_net

HasProfit(recs, ca) ==
    /\ recs[ca].buy # <<>>
    /\ recs[ca].buy[1].market_cap # None
    /\ recs[ca].buy[1].price_usd # None

record_sell_records(recs, ca, gross, net) ==
    [recs EXCEPT ![ca].sell =
        <<[usd_amount_gross |-> gross, usd_amount_net |-> net,
           has_profit |-> HasProfit(recs, ca),
           profit |-> SellProfit(recs, ca, net)]>>]

\* record_sell ends with update_compound_balance(profit) when profit is not None
record_sell_state(st, recs, ca, net) ==
    IF HasProfit(recs, ca)
    THEN update_compound_balance(st, SellProfit(recs, ca, net))
    ELSE st

\* ------------------------------------------------------------ sniper.py
\* process_pending_cas sizing (lines 373-382, 408-410)
usd_amount == (DAILY_CAPITAL_USD * (100 - BUY_FEE_PERCENT)) \div 100
fee_usd_buy == (usd_amount * BUY_FEE_PERCENT) \div 100
usd_amount_gross == usd_amount + fee_usd_buy
usd_amount_net == usd_amount
quote_inAmount == usd_to_lamports(usd_amount)

\* execute_jupiter_swap_from_quote: fee applied to the quoted amount, USD value
swap_in_amount == (quote_inAmount * (100 - BUY_FEE_PERCENT)) \div 100
swap_usd_value == lamports_to_usd(swap_in_amount)
swap_fee_usd == (swap_usd_value * BUY_FEE_PERCENT) \div 100

\* monitor_position thresholds (lines 559-560)
stop_loss_pct == Abs(STOP_LOSS)
take_profit_pct == Abs(TAKE_PROFIT)

\* pct_from_entry >= take_profit_pct, pct_from_entry <= -stop_loss_pct with
\* pct_from_entry = ((current_price or 0) - entry) / entry * 100, 0 if entry <= 0
PriceOr0(p) == IF p = None THEN 0 ELSE p
PriceTP(entry, p) == IF entry > 0 THEN (PriceOr0(p) - entry) * 100 >= take_profit_pct * entry
                     ELSE 0 >= take_profit_pct
PriceSL(entry, p) == IF entry > 0 THEN (PriceOr0(p) - entry) * 100 <= -(stop_loss_pct * entry)
                     ELSE 0 <= -stop_loss_pct
\* current_mcap >= entry_mcap * (1 + tp/100), current_mcap <= entry_mcap * (1 - sl/100)
McapTP(entry_mcap, m) == m * 100 >= entry_mcap * (100 + take_profit_pct)
McapSL(entry_mcap, m) == m * 100 <= entry_mcap * (100 - stop_loss_pct)

\* outcome decided by the DRY_RUN branch of one poll (lines 655-671)
DryOutcome(entry_price, entry_mcap, p, m) ==
    LET byMcap == IF entry_mcap # None /\ m # None
                  THEN IF McapTP(entry_mcap, m) THEN "TP"
                       ELSE IF McapSL(entry_mcap, m) THEN "SL" ELSE "none"
                  ELSE "none"
    IN IF byMcap # "none" THEN byMcap
       ELSE IF PriceTP(entry_price, p) THEN "TP"
       ELSE IF PriceSL(entry_price, p) THEN "SL"
       ELSE "none"

\* outcome decided by the live branch of one poll (lines 731-753)
LiveOutcome(entry_price, p) ==
    IF PriceSL(entry_price, p) THEN "SL"
    ELSE IF PriceTP(entry_price, p) THEN "TP"
    ELSE "none"

\* _find_history_record_for_ca without its "usd_out is None" test
OpenIdxAnyExit(hist, ca) == {i \in 1..Len(hist) : hist[i].ca = ca /\ hist[i].usd_in # None}

\* _find_history_record_for_ca: index of the most recent open record, 0 if none
OpenIdx(hist, ca) == {i \in 1..Len(hist) : hist[i].ca = ca /\ hist[i].usd_in # None /\ hist[i].usd_out = None}
FindHistoryRecordNotFound(hist, ca) == 0

FindHistoryRecord(hist, ca) ==
    IF OpenIdx(hist, ca) = {} THEN 0
    ELSE CHOOSE i \in OpenIdx(hist, ca) : \A j \in OpenIdx(hist, ca) : j <= i

\* ------------------------------------------- JSON files (utils.py:118-152)
\* json.dump writes the text of an object piece by piece: "{", one piece per
\* key, "}"
Piece(k, v) == [k |-> k, v |-> v]
json_dump(st) ==
    <<Piece("{", 0),
      Piece("current_balance_usd", st.current_balance_usd),
      Piece("cycle", st.cycle),
      Piece("last_daily_capital", st.last_daily_capital),
      Piece("}", 0)>>

\* json.load accepts a complete object only
json_valid(text) ==
    /\ Len(text) >= 2
    /\ text[1].k = "{"
    /\ text[Len(text)].k = "}"
    /\ \A i \in 2..(Len(text) - 1) : text[i].k \notin {"{", "}"}
json_dict(text, last) ==
    [key \in {text[i].k : i \in 2..last} |->
        text[CHOOSE i \in 2..last : text[i].k = key].v]
EmptyDict == [key \in {} |-> 0]

\* a reader that returns the keys read so far when the text ends early
load_json_partial(text) ==
    IF json_valid(text) THEN json_dict(text, Len(text) - 1)
    ELSE IF Len(text) >= 1 /\ text[1].k = "{" THEN json_dict(text, Len(text))
    ELSE EmptyDict

\* _load_json: json.load, {} on any exception (missing file, invalid text)
load_json(text) ==
    IF json_valid(text) THEN json_dict(text, Len(text) - 1) ELSE EmptyDict

load_position_state(text) ==
    IF load_json(text) = EmptyDict THEN load_position_state_default
    ELSE load_json(text)

NoLoad == [loaded |-> FALSE, state |-> load_position_state_default]

\* processed_cas.json: one key per address (save_processed_ca, is_ca_processed)
CAOrder == <<"a", "b">>
json_dump_keys(keys) ==
    LET sel == SelectSeq(CAOrder, LAMBDA c : c \in keys)
    IN <<Piece("{", 0)>> \o [i \in 1..Len(sel) |-> Piece(sel[i], 0)]
                        \o <<Piece("}", 0)>>
processed_keys(text) == DOMAIN load_json(text)

\* file: position_state.json, pfile: processed_cas.json, target: the file
\* being written, pending: text not yet written, new / pnew: the value being
\* saved, marked: addresses for which a save_processed_ca call has returned
InitFs == [mode |-> "idle", target |-> "position", file |-> <<>>,
           pfile |-> <<>>, pending |-> <<>>,
           new |-> load_position_state_default, pnew |-> {}, marked |-> {},
           saves |-> 0, last |-> NoLoad]

\* ---- SIM_LOCK = asyncio.Lock() (line 808).  LockOps lists, in program order,
\* what a coroutine does to the lock between two of the model's steps:
\* "acquire" / "release" are the entry and exit of an "async with SIM_LOCK"
\* block, "await" is an await expression between them (a point at which the
\* event loop may run another task)
FreeLock == [locked |-> FALSE, waiters |-> <<>>, heldAcrossAwait |-> FALSE]

\* save_sim_state (lines 827-837): the copy is taken under the lock, the file
\* is written after the block
SaveSimStateOps == <<"await", "acquire", "release">>

\* send_simulation_summary (lines 840-888): the counters are read under the
\* lock, the message is built and sent after the block
SendSimulationSummaryOps == <<"await", "acquire", "release">>

\* _find_history_record_for_ca (lines 570-575): the scan, and the return inside
\* the block, which leaves it
FindHistoryRecordOps == <<"await", "acquire", "release">>

RecordBuyDemoOpsNested(ok) ==
    IF ok THEN <<"await", "acquire">> \o SaveSimStateOps \o <<"release">>
    ELSE <<"await", "acquire", "release">>

\* _record_buy_demo (lines 445-465): test, debit and append under the lock;
\* "return False" leaves the block; save_sim_state is awaited after it
RecordBuyDemoOps(ok) ==
    IF ok THEN <<"await", "acquire", "release">> \o SaveSimStateOps
    ELSE <<"await", "acquire", "release">>

\* one DRY_RUN poll of monitor_position (lines 624-722): the record lookup,
\* the entry_mcap fill (643-652) and, on an exit, the update of SIM_STATE
\* (686-699), save_sim_state (701), the read of buys_today (716-717) and the
\* summary (718-722)
MonitorPollOps(fill, closing, summary) ==
    FindHistoryRecordOps
    \o (IF fill THEN <<"acquire", "release">> \o SaveSimStateOps ELSE <<>>)
    \o (IF closing
        THEN <<"acquire", "release">> \o SaveSimStateOps \o <<"acquire", "release">>
             \o (IF summary THEN SendSimulationSummaryOps ELSE <<>>)
        ELSE <<>>)

Acquisitions(ops) == Cardinality({k \in 1..Len(ops) : ops[k] = "acquire"})

\* asyncio.Lock.acquire takes a free lock without suspending; on a held lock
\* the caller is parked in _waiters and the rest of its coroutine does not run
\* until a release wakes it.  release frees the lock
RECURSIVE RunLockOps(_, _, _)
RunLockOps(l, task, ops) ==
    IF ops = <<>> THEN l
    ELSE IF Head(ops) = "acquire"
    THEN IF l.locked
         THEN [l EXCEPT !.waiters = Append(@, task)]
         ELSE RunLockOps([l EXCEPT !.locked = TRUE], task, Tail(ops))
    ELSE IF Head(ops) = "release"
    THEN RunLockOps([l EXCEPT !.locked = FALSE], task, Tail(ops))
    ELSE RunLockOps([l EXCEPT !.heldAcrossAwait = @ \/ l.locked], task, Tail(ops))

IdleW == [pc |-> "idle", ca |-> "a", price |-> None, mcap |-> 0, waits |-> 0]
NoPoll == [dry |-> FALSE, price |-> None, mcap |-> None,
           entry_price |-> None, entry_mcap |-> None, outcome |-> "none"]
NoEnd == [ended |-> FALSE, dry |-> FALSE, ca |-> "a", trig |-> "none",
          sellIssued |-> FALSE, sellResult |-> "none", closes |-> 0,
          requested |-> FALSE, notify |-> "none", sent |-> 0, orders |-> 0,
          cancel |-> "none", locks |-> 0]

Init ==
    /\ envDryRun \in EnvValues
    /\ msgs = 0
    /\ queue = <<>>
    /\ processed = {}
    /\ records = [ca \in CAs |-> [buy |-> <<>>, sell |-> <<>>]]
    /\ posState = load_position_state_default
    /\ daily_trades = 0
    /\ today = 0
    /\ lastCycleDate = 0
    /\ SIM_STATE = [balance |-> DEMO_BALANCE, wins |-> 0, losses |-> 0,
                    completed_trades |-> 0, buys_today |-> 0, history |-> <<>>]
    /\ w = IdleW
    /\ monitors = <<>>
    /\ buyStarted = [ca \in CAs |-> 0]
    /\ buyExecuted = [ca \in CAs |-> 0]
    /\ lastPoll = NoPoll
    /\ lastEnd = NoEnd
    /\ fs = InitFs
    /\ SIM_LOCK = FreeLock

\* ---- _on_new_message (after the CA was extracted) and enqueue_ca
OnNewMessage(ca) ==
    /\ msgs < MaxMsgs
    /\ msgs' = msgs + 1
    /\ IF is_ca_processed(ca)
       THEN UNCHANGED <<queue, processed>>
       ELSE IF ~is_buy_allowed
            THEN processed' = processed \cup {ca} /\ UNCHANGED queue
            ELSE /\ queue' = IF ~is_ca_processed(ca) THEN Append(queue, ca) ELSE queue
                 /\ UNCHANGED processed
    /\ lastPoll' = NoPoll /\ lastEnd' = NoEnd
    /\ UNCHANGED <<SIM_LOCK, fs, envDryRun, records, posState, daily_trades, today,
                   lastCycleDate, SIM_STATE, w, monitors, buyStarted,
                   buyExecuted>>

\* ---- process_pending_cas: dequeue_ca
WorkerDequeue ==
    /\ w.pc = "idle"
    /\ queue # <<>>
    /\ w' = [IdleW EXCEPT !.pc = "fetch", !.ca = Head(queue)]
    /\ queue' = Tail(queue)
    /\ lastPoll' = NoPoll /\ lastEnd' = NoEnd
    /\ UNCHANGED <<SIM_LOCK, fs, envDryRun, msgs, processed, records, posState, daily_trades,
                   today, lastCycleDate, SIM_STATE, monitors, buyStarted,
                   buyExecuted>>

\* ---- price/liquidity fetch returned: filters, sizing, start of the swap call
WorkerFetched(price, mcap, liq, tax) ==
    /\ w.pc = "fetch"
    /\ IF price = None \/ liq <= 0 \/ mcap > MAX_MCAP_LIQ_RATIO * liq \/ tax > 0
          \/ usd_amount <= 0 \/ quote_inAmount <= 0
       THEN \* a filter skipped the CA: save_processed_ca(ca); continue
            /\ processed' = processed \cup {w.ca}
            /\ w' = IdleW
            /\ UNCHANGED buyStarted
       ELSE IF BuyEnvRaises
       THEN \* execute_jupiter_swap_from_quote raises at int("true"): except branch
            /\ processed' = processed \cup {w.ca}
            /\ w' = IdleW
            /\ buyStarted' = [buyStarted EXCEPT ![w.ca] = @ + 1]
       ELSE /\ w' = [pc |-> "swap", ca |-> w.ca, price |-> price, mcap |-> mcap,
                     waits |-> 0]
            /\ buyStarted' = [buyStarted EXCEPT ![w.ca] = @ + 1]
                    /\ UNCHANGED processed
    /\ lastPoll' = NoPoll /\ lastEnd' = NoEnd
    /\ UNCHANGED <<SIM_LOCK, fs, envDryRun, msgs, queue, records, posState, daily_trades,
                   today, lastCycleDate, SIM_STATE, monitors, buyExecuted>>

\* ---- the part of one iteration that follows the swap call (lines 408-498):
\* record_buy, on_successful_buy, save_processed_ca, daily_trades += 1, the buy
\* message, the DRY_RUN bookkeeping (_record_buy_demo) and the monitor spawn.
\* tx is the value the swap call returned, ps / rs the position state and the
\* trade records the swap call left behind.
NewMonitor(ca, price) ==
    [ca |-> ca, entry_price |-> price, usd_in |-> usd_amount_net, pc |-> "poll"]

record_buy_demo_unchecked(sim, ca, price, mcap) ==
    [sim EXCEPT !.balance = @ - usd_amount_net,
                !.buys_today = @ + 1,
                !.history = Append(@, [ca |-> ca, usd_in |-> usd_amount_net,
                                       usd_out |-> None, entry_price |-> price,
                                       entry_mcap |-> mcap, result |-> "open"])]

\* _record_buy_demo (lines 445-465): refused when the balance does not cover
\* the amount, otherwise debit and a new open history record
record_buy_demo(sim, ca, price, mcap) ==
    IF sim.balance < usd_amount_net THEN sim
    ELSE [sim EXCEPT !.balance = @ - usd_amount_net,
                     !.buys_today = @ + 1,
                     !.history = Append(@, [ca |-> ca, usd_in |-> usd_amount_net,
                                            usd_out |-> None, entry_price |-> price,
                                            entry_mcap |-> mcap, result |-> "open"])]

PostBuyNotifyAborts(tx, ps, rs, tg, orders) ==
    /\ records' = record_buy(rs, w.ca, w.mcap, usd_amount_gross, usd_amount_net)
    /\ posState' = ps
    /\ processed' = processed \cup {w.ca}
    /\ daily_trades' = daily_trades + 1
    /\ lastEnd' = [NoEnd EXCEPT !.ca = w.ca, !.notify = tg, !.sent = 1,
                                !.requested = (~BuyDryRun /\ tx # "None") \/ orders > 0,
                                !.orders = orders,
                                !.locks = IF SniperDryRun
                                          THEN Acquisitions(RecordBuyDemoOps(
                                                  SIM_STATE.balance >= usd_amount_net))
                                          ELSE 0]
    /\ SIM_STATE' = IF SniperDryRun /\ tg # "raise"
                    THEN record_buy_demo(SIM_STATE, w.ca, w.price, w.mcap)
                    ELSE SIM_STATE
    /\ SIM_LOCK' = IF SniperDryRun /\ tg # "raise"
                   THEN RunLockOps(SIM_LOCK, "worker",
                                   RecordBuyDemoOps(SIM_STATE.balance >= usd_amount_net))
                   ELSE SIM_LOCK
    /\ monitors' = IF tg # "raise" THEN Append(monitors, NewMonitor(w.ca, w.price))
                   ELSE monitors
    /\ buyExecuted' = IF tx = "None" THEN buyExecuted
                      ELSE [buyExecuted EXCEPT ![w.ca] = @ + 1]
    /\ w' = IdleW

\* tg is what send_telegram_message(buy_msg) does (lines 420-437): the call
\* sits in a try whose except clause logs, so the DRY_RUN bookkeeping and the
\* monitor spawn follow whatever tg is; orders is the number of order requests
\* of a swap call that ran out of attempts (0 otherwise)
PostBuy(tx, ps, rs, tg, orders) ==
    /\ records' = record_buy(rs, w.ca, w.mcap, usd_amount_gross, usd_amount_net)
    /\ posState' = ps
    /\ processed' = processed \cup {w.ca}
    /\ daily_trades' = daily_trades + 1
    /\ lastEnd' = [NoEnd EXCEPT !.ca = w.ca, !.notify = tg, !.sent = 1,
                                !.requested = (~BuyDryRun /\ tx # "None") \/ orders > 0,
                                !.orders = orders,
                                !.locks = IF SniperDryRun
                                          THEN Acquisitions(RecordBuyDemoOps(
                                                  SIM_STATE.balance >= usd_amount_net))
                                          ELSE 0]
    /\ SIM_STATE' = IF SniperDryRun
                    THEN record_buy_demo(SIM_STATE, w.ca, w.price, w.mcap)
                    ELSE SIM_STATE
    /\ SIM_LOCK' = IF SniperDryRun
                   THEN RunLockOps(SIM_LOCK, "worker",
                                   RecordBuyDemoOps(SIM_STATE.balance >= usd_amount_net))
                   ELSE SIM_LOCK
    /\ monitors' = Append(monitors, NewMonitor(w.ca, w.price))
    /\ buyExecuted' = IF tx = "None" THEN buyExecuted
                      ELSE [buyExecuted EXCEPT ![w.ca] = @ + 1]
    /\ w' = IdleW

\* books written inside execute_jupiter_swap_from_quote on a fabricated or a
\* successful buy: update_compound_balance(-usd_value), record_buy(...)
SwapState == update_compound_balance(posState, -swap_usd_value)
SwapRecords == record_buy(records, w.ca, 0, swap_usd_value, swap_usd_value - swap_fee_usd)

\* ---- execute_jupiter_swap_from_quote, DRY_RUN branch (lines 870-888)
SwapDryRun(tg) ==
    /\ w.pc = "swap"
    /\ BuyDryRun
    /\ PostBuy("fake", SwapState, SwapRecords, tg, 0)
    /\ lastPoll' = NoPoll
    /\ UNCHANGED <<fs, envDryRun, msgs, queue, today, lastCycleDate, buyStarted>>

\* ---- wallet / SOL balance checks that return None before the retry loop
SwapPrecheckFails(tg) ==
    /\ w.pc = "swap"
    /\ ~BuyDryRun
    /\ PostBuy("None", posState, records, tg, 0)
    /\ lastPoll' = NoPoll
    /\ UNCHANGED <<fs, envDryRun, msgs, queue, today, lastCycleDate, buyStarted>>

\* ---- the order/execute retry loop (lines 929-985): outcomes[k] is what
\* attempt k meets; the first success returns the signature, three failures
\* None; every attempt starts with a GET of the order endpoint
BuySucceeds(outcomes) == \E k \in Attempts : outcomes[k] = "success"

SwapLive(outcomes, tg) ==
    /\ w.pc = "swap"
    /\ ~BuyDryRun
    /\ IF BuySucceeds(outcomes)
       THEN PostBuy("sig", SwapState, SwapRecords, tg, 0)
       ELSE PostBuy("None", posState, records, tg, Cardinality(Attempts))
    /\ lastPoll' = NoPoll
    /\ UNCHANGED <<fs, envDryRun, msgs, queue, today, lastCycleDate, buyStarted>>

\* ---- monitor_position, one poll of the DRY_RUN branch (lines 579-728)
RemoveAt(seq, i) == SubSeq(seq, 1, i - 1) \o SubSeq(seq, i + 1, Len(seq))

\* net_return of a simulated close (lines 679-684)
NetReturn(usd_in, outcome) ==
    LET gross_return == IF outcome = "TP"
                        THEN (usd_in * (100 + take_profit_pct)) \div 100
                        ELSE (usd_in * (100 - stop_loss_pct)) \div 100
    IN (gross_return * (100 - SELL_FEE_PERCENT)) \div 100

\* "no useful data yet" (line 601)
NoUsefulData(p, m) == (p = None \/ p <= 0) /\ m = None

MonitorPollDry(i, p, m) ==
    LET mon  == monitors[i]
        idx  == FindHistoryRecord(SIM_STATE.history, mon.ca)
        usd_in == IF idx > 0 THEN SIM_STATE.history[idx].usd_in ELSE mon.usd_in
        rec_mcap == IF idx > 0 THEN SIM_STATE.history[idx].entry_mcap ELSE None
        fill == idx > 0 /\ rec_mcap = None /\ m # None
        entry_mcap == IF fill THEN m ELSE rec_mcap
        hist1 == IF fill THEN [SIM_STATE.history EXCEPT ![idx].entry_mcap = m]
                 ELSE SIM_STATE.history
        outcome == DryOutcome(mon.entry_price, entry_mcap, p, m)
        net_return == NetReturn(usd_in, outcome)
        hist2 == IF idx > 0
                 THEN [hist1 EXCEPT ![idx].usd_out = net_return,
                                    ![idx].result = IF outcome = "TP" THEN "WIN" ELSE "LOSS"]
                 ELSE hist1
        summary == SIM_STATE.buys_today >= MAX_BUYS_PER_DAY
        ops == MonitorPollOps(fill, outcome # "none", summary)
    IN
    /\ SniperDryRun
    /\ mon.pc = "poll"
    /\ IF NoUsefulData(p, m)
       THEN /\ lastPoll' = NoPoll /\ lastEnd' = NoEnd
            /\ UNCHANGED <<SIM_STATE, SIM_LOCK, monitors>>
       ELSE IF outcome = "none"
       THEN /\ lastPoll' = NoPoll /\ lastEnd' = NoEnd
            /\ SIM_STATE' = [SIM_STATE EXCEPT !.history = hist1]
            /\ SIM_LOCK' = RunLockOps(SIM_LOCK, mon.ca, ops)
            /\ UNCHANGED monitors
       ELSE /\ lastPoll' = [dry |-> TRUE, price |-> p, mcap |-> m,
                            entry_price |-> mon.entry_price,
                            entry_mcap |-> entry_mcap, outcome |-> outcome]
            /\ SIM_STATE' =
                  [SIM_STATE EXCEPT
                      !.history = hist2,
                      !.completed_trades = @ + 1,
                      !.wins = IF outcome = "TP" THEN @ + 1 ELSE @,
                      !.losses = IF outcome = "TP" THEN @ ELSE @ + 1,
                      !.balance = @ + net_return]
            /\ SIM_LOCK' = RunLockOps(SIM_LOCK, mon.ca, ops)
            /\ monitors' = RemoveAt(monitors, i)
            /\ lastEnd' = [ended |-> TRUE, dry |-> TRUE, ca |-> mon.ca,
                           trig |-> outcome, sellIssued |-> FALSE,
                           sellResult |-> "none", closes |-> 1,
                           requested |-> FALSE, notify |-> "none",
                           sent |-> IF summary THEN 1 ELSE 0,
                           orders |-> 0, cancel |-> "none",
                           locks |-> Acquisitions(ops)]
    /\ UNCHANGED <<fs, envDryRun, msgs, queue, processed, records, posState,
                   daily_trades, today, lastCycleDate, w, buyStarted,
                   buyExecuted>>

\* ---- monitor_position, one poll of the live branch (lines 579-621, 730-755):
\* the stop-loss branch awaits execute_sell; the take-profit branch calls
\* logger.success on the logging.Logger of line 36, which raises AttributeError
\* and ends the task in the except clause of line 759
MonitorPollLive(i, p, m) ==
    LET mon == monitors[i]
        outcome == LiveOutcome(mon.entry_price, p)
    IN
    /\ ~SniperDryRun
    /\ mon.pc = "poll"
    /\ IF NoUsefulData(p, m) \/ outcome = "none"
       THEN /\ lastPoll' = NoPoll /\ lastEnd' = NoEnd
            /\ UNCHANGED monitors
       ELSE /\ lastPoll' = [dry |-> FALSE, price |-> p, mcap |-> m,
                            entry_price |-> mon.entry_price,
                            entry_mcap |-> None, outcome |-> outcome]
            /\ IF outcome = "SL"
               THEN /\ monitors' = [monitors EXCEPT ![i].pc = "sell"]
                    /\ lastEnd' = NoEnd
               ELSE /\ monitors' = RemoveAt(monitors, i)
                    /\ lastEnd' = [ended |-> TRUE, dry |-> FALSE, ca |-> mon.ca,
                                   trig |-> "TP", sellIssued |-> FALSE,
                                   sellResult |-> "none", closes |-> 0,
                                   requested |-> FALSE, notify |-> "none",
                                   sent |-> 0, orders |-> 0, cancel |-> "none", locks |-> 0]
    /\ UNCHANGED <<SIM_LOCK, fs, envDryRun, msgs, queue, processed, records, posState,
                   daily_trades, today, lastCycleDate, SIM_STATE, w, buyStarted,
                   buyExecuted>>

\* ---- execute_sell: books written on a fabricated or successful sell
\* (update_compound_balance(after_profit_usd=out_usd), then record_sell)
sell_fee_usd(out_usd) == (out_usd * SELL_FEE_PERCENT) \div 100
SellState(st, recs, ca, out_usd) ==
    record_sell_state(update_compound_balance(st, out_usd), recs, ca,
                      out_usd - sell_fee_usd(out_usd))
SellRecords(recs, ca, out_usd) ==
    record_sell_records(recs, ca, out_usd, out_usd - sell_fee_usd(out_usd))

\* the execute retry loop (lines 1028-1059) from attempt k on: on success the
\* books are written and logger.success raises AttributeError, which the except
\* clause of line 1054 treats as a failed attempt; the loop always runs out and
\* execute_sell returns None
RECURSIVE SellLoop(_, _, _, _, _, _, _)
SellLoop(st, recs, closes, ca, out_usd, outcomes, k) ==
    IF k > 3 THEN [st |-> st, recs |-> recs, closes |-> closes]
    ELSE IF outcomes[k] = "success"
    THEN SellLoop(SellState(st, recs, ca, out_usd), SellRecords(recs, ca, out_usd),
                  closes + 1, ca, out_usd, outcomes, k + 1)
    ELSE SellLoop(st, recs, closes, ca, out_usd, outcomes, k + 1)

\* ---- execute_sell fails at the order fetch (lines 974-984), which precedes
\* the DRY_RUN test of line 1007: the request raises into the monitor or
\* returns None; the stop-loss branch of the monitor
\* ignores the result and leaves its loop (lines 733-741)
ExecuteSellOrderFails(i, order) ==
    LET mon == monitors[i] IN
    /\ mon.pc = "sell"
    /\ lastEnd' = [ended |-> TRUE, dry |-> FALSE, ca |-> mon.ca, trig |-> "SL",
                   sellIssued |-> TRUE,
                   sellResult |-> IF order = "raise" THEN "raised" ELSE "None",
                   closes |-> 0, requested |-> TRUE, notify |-> "none",
                   sent |-> 0, orders |-> 1, cancel |-> "none", locks |-> 0]
    /\ monitors' = RemoveAt(monitors, i)
    /\ lastPoll' = NoPoll
    /\ UNCHANGED <<SIM_LOCK, fs, envDryRun, msgs, queue, processed, records, posState,
                   daily_trades, today, lastCycleDate, SIM_STATE, w, buyStarted,
                   buyExecuted>>

\* ---- execute_sell with a valid order: the DRY_RUN branch (lines 1007-1024) or
\* the execute retry loop; the monitor ignores the result and leaves its loop
ExecuteSell(i, out_usd, outcomes) ==
    LET mon == monitors[i]
        loop == SellLoop(posState, records, 0, mon.ca, out_usd, outcomes, 1)
        end(result, closes) ==
            [ended |-> TRUE, dry |-> FALSE, ca |-> mon.ca, trig |-> "SL",
             sellIssued |-> TRUE, sellResult |-> result, closes |-> closes,
             requested |-> TRUE, notify |-> "none", sent |-> 0,
             orders |-> IF closes = 0 THEN 1 ELSE 0, cancel |-> "none", locks |-> 0]
    IN
    /\ mon.pc = "sell"
    /\ IF SellDryRun
       THEN /\ posState' = SellState(posState, records, mon.ca, out_usd)
            /\ records' = SellRecords(records, mon.ca, out_usd)
            /\ lastEnd' = end("fake", 1)
       ELSE /\ posState' = loop.st
            /\ records' = loop.recs
            /\ lastEnd' = end("None", loop.closes)
    /\ monitors' = RemoveAt(monitors, i)
    /\ lastPoll' = NoPoll
    /\ UNCHANGED <<SIM_LOCK, fs, envDryRun, msgs, queue, processed, daily_trades, today,
                   lastCycleDate, SIM_STATE, w, buyStarted, buyExecuted>>

\* ---- process_pending_cas finds the queue empty (lines 241-243): it sleeps
\* one second and looks again; waits is the parity of the sleeps of the
\* current idle period
WorkerIdle ==
    /\ w.pc = "idle"
    /\ queue = <<>>
    /\ w' = [w EXCEPT !.waits = 1 - @]
    /\ lastPoll' = NoPoll /\ lastEnd' = NoEnd
    /\ UNCHANGED <<SIM_LOCK, fs, envDryRun, msgs, queue, processed, records, posState,
                   daily_trades, today, lastCycleDate, SIM_STATE, monitors,
                   buyStarted, buyExecuted>>

\* ---- the calendar day changes
DayPasses ==
    /\ today < MaxDay
    /\ today' = today + 1
    /\ lastPoll' = NoPoll /\ lastEnd' = NoEnd
    /\ UNCHANGED <<SIM_LOCK, fs, envDryRun, msgs, queue, processed, records, posState,
                   daily_trades, lastCycleDate, SIM_STATE, w, monitors,
                   buyStarted, buyExecuted>>

\* ---- reset_daily_cycle, run by main() each time run_until_disconnected returns
reset_daily_cycle ==
    /\ IF today # lastCycleDate
       THEN daily_trades' = 0 /\ lastCycleDate' = today
       ELSE UNCHANGED <<daily_trades, lastCycleDate>>
    /\ lastPoll' = NoPoll /\ lastEnd' = NoEnd
    /\ UNCHANGED <<SIM_LOCK, fs, envDryRun, msgs, queue, processed, records, posState, today,
                   SIM_STATE, w, monitors, buyStarted, buyExecuted>>

Next ==
    \/ \E ca \in CAs : OnNewMessage(ca)
    \/ WorkerDequeue
    \/ \E p \in EntryPrices, mc \in EntryMcaps, l \in Liquidities, t \in SellTaxes :
          WorkerFetched(p, mc, l, t)
    \/ \E tg \in NotifyOutcomes : SwapDryRun(tg)
    \/ \E tg \in NotifyOutcomes : SwapPrecheckFails(tg)
    \/ \E o \in [Attempts -> BuyOutcomes], tg \in NotifyOutcomes : SwapLive(o, tg)
    \/ \E i \in 1..Len(monitors), p \in SamplePrices, m \in SampleMcaps :
          MonitorPollDry(i, p, m)
    \/ \E i \in 1..Len(monitors), p \in SamplePrices, m \in SampleMcaps :
          MonitorPollLive(i, p, m)
    \/ \E i \in 1..Len(monitors), o \in OrderOutcomes : ExecuteSellOrderFails(i, o)
    \/ \E i \in 1..Len(monitors), u \in OutUsdVals, e \in [Attempts -> ExecOutcomes] :
          ExecuteSell(i, u, e)

Spec == Init /\ [][Next]_vars

\* ---- persistence of position_state.json under crashes ----------------
\* update_compound_balance: load_position_state(), add the profit, then
\* save_position_state -> _save_json: open(path, "w") truncates the file
UpdateCompoundBegin(profit) ==
    /\ fs.mode = "idle"
    /\ fs.saves < MaxSaves
    /\ fs' = [fs EXCEPT
                !.mode = "writing", !.target = "position", !.file = <<>>,
                !.pending = json_dump(update_compound_balance(load_position_state(fs.file), profit)),
                !.new = update_compound_balance(load_position_state(fs.file), profit),
                !.saves = @ + 1, !.last = NoLoad]
    /\ UNCHANGED <<SIM_LOCK, envDryRun, msgs, queue, processed, records, posState,
                   daily_trades, today, lastCycleDate, SIM_STATE, w, monitors,
                   buyStarted, buyExecuted, lastPoll, lastEnd>>

\* save_processed_ca: _load_json (the keys read, {} if the file cannot be
\* read or parsed), processed[ca] = now, then _save_json truncates the file
SaveProcessedCaBegin(ca) ==
    /\ fs.mode = "idle"
    /\ fs.saves < MaxSaves
    /\ fs' = [fs EXCEPT
                !.mode = "writing", !.target = "processed", !.pfile = <<>>,
                !.pending = json_dump_keys(processed_keys(fs.pfile) \cup {ca}),
                !.pnew = processed_keys(fs.pfile) \cup {ca},
                !.saves = @ + 1, !.last = NoLoad]
    /\ processed' = processed_keys(<<>>)
    /\ UNCHANGED <<SIM_LOCK, envDryRun, msgs, queue, records, posState,
                   daily_trades, today, lastCycleDate, SIM_STATE, w, monitors,
                   buyStarted, buyExecuted, lastPoll, lastEnd>>

\* json.dump(data, f): the next piece of text reaches the file; with the last
\* piece the snapshot is fully written
SaveWrite ==
    /\ fs.mode = "writing"
    /\ fs.pending # <<>>
    /\ IF fs.target = "position"
       THEN /\ fs' = [fs EXCEPT !.file = Append(@, Head(fs.pending)),
                                !.pending = Tail(@)]
            /\ posState' = IF Tail(fs.pending) = <<>> THEN fs.new ELSE posState
            /\ UNCHANGED processed
       ELSE /\ fs' = [fs EXCEPT !.pfile = Append(@, Head(fs.pending)),
                                !.pending = Tail(@),
                                !.marked = IF Tail(fs.pending) = <<>>
                                           THEN @ \cup fs.pnew ELSE @]
            /\ processed' = processed_keys(Append(fs.pfile, Head(fs.pending)))
            /\ UNCHANGED posState
    /\ UNCHANGED <<SIM_LOCK, envDryRun, msgs, queue, records,
                   daily_trades, today, lastCycleDate, SIM_STATE, w, monitors,
                   buyStarted, buyExecuted, lastPoll, lastEnd>>

\* the with-block closes the file and save_position_state returns
SaveClose ==
    /\ fs.mode = "writing"
    /\ fs.pending = <<>>
    /\ fs' = [fs EXCEPT !.mode = "idle"]
    /\ UNCHANGED <<SIM_LOCK, envDryRun, msgs, queue, processed, records, posState,
                   daily_trades, today, lastCycleDate, SIM_STATE, w, monitors,
                   buyStarted, buyExecuted, lastPoll, lastEnd>>

\* the process is killed, between or in the middle of writes
Crash ==
    /\ fs.mode \in {"idle", "writing"}
    /\ fs' = [fs EXCEPT !.mode = "crashed", !.pending = <<>>]
    /\ UNCHANGED <<SIM_LOCK, envDryRun, msgs, queue, processed, records, posState,
                   daily_trades, today, lastCycleDate, SIM_STATE, w, monitors,
                   buyStarted, buyExecuted, lastPoll, lastEnd>>

\* restart: the first load_position_state() of the new process
Restart ==
    /\ fs.mode = "crashed"
    /\ fs' = [fs EXCEPT !.mode = "idle",
                        !.last = [loaded |-> TRUE,
                                  state |-> load_position_state(fs.file)]]
    /\ UNCHANGED <<SIM_LOCK, envDryRun, msgs, queue, processed, records, posState,
                   daily_trades, today, lastCycleDate, SIM_STATE, w, monitors,
                   buyStarted, buyExecuted, lastPoll, lastEnd>>

NextPersist ==
    \/ \E profit \in OutUsdVals \cup {-swap_usd_value} : UpdateCompoundBegin(profit)
    \/ \E ca \in CAs : SaveProcessedCaBegin(ca)
    \/ SaveWrite
    \/ SaveClose
    \/ Crash
    \/ Restart

SpecPersist == Init /\ [][NextPersist]_vars

\* the same program observed across day boundaries
NextDays ==
    \/ Next
    \/ WorkerIdle
    \/ DayPasses
    \/ reset_daily_cycle

SpecDays == Init /\ [][NextDays]_vars

\* the event loop keeps the handler, the worker and the monitor tasks running;
\* a day boundary and a return of run_until_disconnected (the only caller of
\* reset_daily_cycle after start-up) are events of the environment
SpecDaysFair == SpecDays /\ WF_vars(Next \/ WorkerIdle)

\* ---- faults inside one iteration and cancellation of the tasks ---------
RecordBuyRaisesStops(tg) ==
    /\ w.pc = "swap"
    /\ records' = SwapRecords
    /\ posState' = SwapState
    /\ lastEnd' = [NoEnd EXCEPT !.ca = w.ca, !.notify = "none", !.sent = 0,
                                !.requested = ~BuyDryRun]
    /\ w' = [w EXCEPT !.pc = "stopped"]
    /\ buyExecuted' = [buyExecuted EXCEPT ![w.ca] = @ + 1]
    /\ lastPoll' = NoPoll
    /\ UNCHANGED <<SIM_LOCK, fs, envDryRun, msgs, queue, processed, daily_trades, today,
                   lastCycleDate, buyStarted, SIM_STATE, monitors>>

\* the record_buy call of line 413 raises (trade_records.json cannot be
\* written) after a swap that was fabricated or succeeded at once: the except
\* clause of line 416 logs, so on_successful_buy, save_processed_ca and
\* daily_trades += 1 of the same try are skipped; the rest of the iteration
\* (buy message, DRY_RUN bookkeeping, monitor spawn) runs
RecordBuyRaises(tg) ==
    /\ w.pc = "swap"
    /\ records' = SwapRecords
    /\ posState' = SwapState
    /\ lastEnd' = [NoEnd EXCEPT !.ca = w.ca, !.notify = tg, !.sent = 1,
                                !.requested = ~BuyDryRun]
    /\ SIM_STATE' = IF SniperDryRun
                    THEN record_buy_demo(SIM_STATE, w.ca, w.price, w.mcap)
                    ELSE SIM_STATE
    /\ SIM_LOCK' = IF SniperDryRun
                   THEN RunLockOps(SIM_LOCK, "worker",
                                   RecordBuyDemoOps(SIM_STATE.balance >= usd_amount_net))
                   ELSE SIM_LOCK
    /\ monitors' = Append(monitors, NewMonitor(w.ca, w.price))
    /\ buyExecuted' = [buyExecuted EXCEPT ![w.ca] = @ + 1]
    /\ w' = IdleW
    /\ lastPoll' = NoPoll
    /\ UNCHANGED <<fs, envDryRun, msgs, queue, processed, daily_trades, today,
                   lastCycleDate, buyStarted>>

\* asyncio.run(main()) cancels the tasks still running when main() returns
\* (line 1143).  The worker is cancelled at "await session.post(EXEC_URL)" of
\* the buy loop (utils.py:954) after the signed transaction went out:
\* CancelledError passes every "except Exception" and the task ends with
\* nothing written
CancelWorkerInSwap ==
    /\ w.pc = "swap"
    /\ ~BuyDryRun
    /\ w' = [w EXCEPT !.pc = "cancelled"]
    /\ lastEnd' = [NoEnd EXCEPT !.ca = w.ca, !.requested = TRUE, !.cancel = "buy"]
    /\ lastPoll' = NoPoll
    /\ UNCHANGED <<SIM_LOCK, fs, envDryRun, msgs, queue, processed, records, posState,
                   daily_trades, today, lastCycleDate, SIM_STATE, monitors,
                   buyStarted, buyExecuted>>

\* a monitor is cancelled at "await session.post(EXEC_URL)" of execute_sell
\* (line 1031) after the signed sell went out: CancelledError leaves the retry
\* loop and is logged by the except clause of line 757
CancelMonitorInSell(i) ==
    LET mon == monitors[i] IN
    /\ mon.pc = "sell"
    /\ ~SellDryRun
    /\ lastEnd' = [NoEnd EXCEPT !.ended = TRUE, !.ca = mon.ca, !.trig = "SL",
                                !.sellIssued = TRUE, !.sellResult = "cancelled",
                                !.requested = TRUE, !.cancel = "sell"]
    /\ monitors' = RemoveAt(monitors, i)
    /\ lastPoll' = NoPoll
    /\ UNCHANGED <<SIM_LOCK, fs, envDryRun, msgs, queue, processed, records, posState,
                   daily_trades, today, lastCycleDate, SIM_STATE, w, buyStarted,
                   buyExecuted>>

NextFaults ==
    \/ Next
    \/ \E tg \in NotifyOutcomes : RecordBuyRaises(tg)
    \/ CancelWorkerInSwap
    \/ \E i \in 1..Len(monitors) : CancelMonitorInSell(i)

SpecFaults == Init /\ [][NextFaults]_vars

\* ---- update_compound_balance applied to the position_state.json an earlier
\* run left behind, written under the same or under another DAILY_CAPITAL_USD
Profits == OutUsdVals \cup {-swap_usd_value}
StoredCapitals == {DAILY_CAPITAL_USD \div 2, DAILY_CAPITAL_USD}
StoredBalances == {0, DAILY_CAPITAL_USD \div 4}
StoredStates ==
    {load_position_state_default}
    \cup {[current_balance_usd |-> b, cycle |-> c, last_daily_capital |-> cap] :
             b \in StoredBalances, c \in 1..2, cap \in StoredCapitals}

InitCompound ==
    /\ envDryRun \in EnvValues
    /\ msgs = 0
    /\ queue = <<>>
    /\ processed = {}
    /\ records = [ca \in CAs |-> [buy |-> <<>>, sell |-> <<>>]]
    /\ posState \in StoredStates
    /\ daily_trades = 0
    /\ today = 0
    /\ lastCycleDate = 0
    /\ SIM_STATE = [balance |-> DEMO_BALANCE, wins |-> 0, losses |-> 0,
                    completed_trades |-> 0, buys_today |-> 0, history |-> <<>>]
    /\ w = IdleW
    /\ monitors = <<>>
    /\ buyStarted = [ca \in CAs |-> 0]
    /\ buyExecuted = [ca \in CAs |-> 0]
    /\ lastPoll = NoPoll
    /\ lastEnd = NoEnd
    /\ fs = InitFs
    /\ SIM_LOCK = FreeLock

\* one call update_compound_balance(after_profit_usd=profit): fs.last keeps
\* what its load_position_state() returned (line 188)
UpdateCompound(profit) ==
    /\ posState.cycle < MaxCycle
    /\ posState' = update_compound_balance(posState, profit)
    /\ fs' = [fs EXCEPT !.last = [loaded |-> TRUE, state |-> posState]]
    /\ UNCHANGED <<SIM_LOCK, envDryRun, msgs, queue, processed, records, daily_trades,
                   today, lastCycleDate, SIM_STATE, w, monitors, buyStarted,
                   buyExecuted, lastPoll, lastEnd>>

NextCompound == \E profit \in Profits : UpdateCompound(profit)

SpecCompound == InitCompound /\ [][NextCompound]_vars

\* ---- the handler and the worker alone, with iterations in which
\* record_buy raises; the event loop keeps resuming the worker, whose awaits
\* (price fetch, swap call, cooldown sleep) all return
WorkerStep ==
    \/ WorkerDequeue
    \/ \E p \in EntryPrices, mc \in EntryMcaps, l \in Liquidities, t \in SellTaxes :
          WorkerFetched(p, mc, l, t)
    \/ \E tg \in NotifyOutcomes : SwapDryRun(tg)
    \/ \E tg \in NotifyOutcomes : SwapPrecheckFails(tg)
    \/ \E o \in [Attempts -> BuyOutcomes], tg \in NotifyOutcomes : SwapLive(o, tg)
    \/ \E tg \in NotifyOutcomes : RecordBuyRaises(tg)

NextWorker ==
    \/ \E ca \in CAs : OnNewMessage(ca)
    \/ WorkerStep

SpecWorker == Init /\ [][NextWorker]_vars

SpecWorkerFair == SpecWorker /\ WF_vars(WorkerStep)

\* ---- a dry run (sniper.py:792 reads DRY_RUN as set): the handler, the
\* worker and the monitors; while monitors run they keep polling, and the
\* oracle eventually gives one of them a sample that crosses a threshold
InitDry == Init /\ SniperDryRun

NextDry ==
    \/ \E ca \in CAs : OnNewMessage(ca)
    \/ WorkerDequeue
    \/ \E p \in EntryPrices, mc \in EntryMcaps, l \in Liquidities, t \in SellTaxes :
          WorkerFetched(p, mc, l, t)
    \/ \E tg \in NotifyOutcomes : SwapDryRun(tg)
    \/ \E i \in 1..Len(monitors), p \in SamplePrices, m \in SampleMcaps :
          MonitorPollDry(i, p, m)

CrossingPoll ==
    \E i \in 1..Len(monitors), p \in SamplePrices, m \in SampleMcaps :
       MonitorPollDry(i, p, m) /\ lastEnd'.ended

SpecDry == InitDry /\ [][NextDry]_vars

SpecDryFair == SpecDry /\ WF_vars(CrossingPoll)

\* ---- a dry run that starts with a simulated balance below the buy amount:
\* DEMO_BALANCE set that low (line 798), or a sim_state.json whose balance
\* load_sim_state (lines 812-824) puts in place of the initial one
ResumedBalances == {DAILY_CAPITAL_USD \div 2}

InitResumed ==
    /\ envDryRun \in EnvValues
    /\ SniperDryRun
    /\ msgs = 0
    /\ queue = <<>>
    /\ processed = {}
    /\ records = [ca \in CAs |-> [buy |-> <<>>, sell |-> <<>>]]
    /\ posState = load_position_state_default
    /\ daily_trades = 0
    /\ today = 0
    /\ lastCycleDate = 0
    /\ \E b \in ResumedBalances :
          SIM_STATE = [balance |-> b,
                       wins |-> 0, losses |-> 0, completed_trades |-> 0,
                       buys_today |-> 0, history |-> <<>>]
    /\ w = IdleW
    /\ monitors = <<>>
    /\ buyStarted = [ca \in CAs |-> 0]
    /\ buyExecuted = [ca \in CAs |-> 0]
    /\ lastPoll = NoPoll
    /\ lastEnd = NoEnd
    /\ fs = InitFs
    /\ SIM_LOCK = FreeLock

SpecResumed == InitResumed /\ [][NextDry]_vars

\* ======================================================================
\* Claims
\* ======================================================================

\* C1: at most one buy swap is executed per address within a cycle; an address
\* that is offered again, also before the worker processed its first
\* occurrence, is not bought a second time.
C1_OneBuyPerAddress == \A ca \in CAs : buyExecuted[ca] <= 1

\* C2: the address is in the processed set (save_processed_ca has written it)
\* before the buy swap for it is started.
C2_ProcessedBeforeBuy == \A ca \in CAs : buyStarted[ca] > 0 => ca \in processed

\* C3: when the swap call returns None (no buy executed), the iteration stops
\* there: no buy record, no daily_trades increment, no balance change and no
\* monitor task.
C3_FailedBuyStops ==
    [][(w.pc = "swap" /\ w'.pc = "idle" /\ buyExecuted' = buyExecuted)
        => /\ records' = records
           /\ daily_trades' = daily_trades
           /\ posState' = posState
           /\ SIM_STATE' = SIM_STATE
           /\ monitors' = monitors]_vars

\* C4: the positions opened in the current day (daily_trades, and buys_today of
\* SIM_STATE) never exceed the configured daily limit.
C4_DailyCap ==
    /\ daily_trades <= MAX_BUYS_PER_DAY
    /\ SIM_STATE.buys_today <= MAX_BUYS_PER_DAY

\* C5: the persisted compounding balance current_balance_usd is never negative.
C5_BalanceFloor == posState.current_balance_usd >= 0

\* C6: a poll whose price sample is unknown (None) never decides an exit.
C6_UnknownPriceNoExit == lastPoll.outcome # "none" => lastPoll.price # None

\* C7: in a poll where the entry market cap and the current market cap are
\* both known, an exit is decided by the market-cap comparison alone.
C7_McapDecides ==
    (/\ lastPoll.outcome # "none"
     /\ lastPoll.entry_mcap # None /\ lastPoll.entry_mcap > 0
     /\ lastPoll.mcap # None)
    => /\ lastPoll.outcome = "TP" =>
              lastPoll.mcap * 100 >= lastPoll.entry_mcap * (100 + Abs(TAKE_PROFIT))
       /\ lastPoll.outcome = "SL" =>
              lastPoll.mcap * 100 <= lastPoll.entry_mcap * (100 - Abs(STOP_LOSS))

\* C8: on known samples the monitor exits as WIN only on a sample whose change
\* from entry (market cap, or price) is >= take-profit and as LOSS only on one
\* whose change is <= -|STOP_LOSS|; never on a sample between the thresholds.
C8_McapKnown == lastPoll.entry_mcap # None /\ lastPoll.entry_mcap > 0
C8_ExitOnlyOnCrossing ==
    (lastPoll.outcome # "none" /\ lastPoll.price # None /\ lastPoll.mcap # None)
    => /\ lastPoll.outcome = "TP" =>
            \/ (lastPoll.price - lastPoll.entry_price) * 100
                   >= Abs(TAKE_PROFIT) * lastPoll.entry_price
            \/ /\ C8_McapKnown
               /\ (lastPoll.mcap - lastPoll.entry_mcap) * 100
                      >= Abs(TAKE_PROFIT) * lastPoll.entry_mcap
       /\ lastPoll.outcome = "SL" =>
            \/ (lastPoll.price - lastPoll.entry_price) * 100
                   <= -(Abs(STOP_LOSS) * lastPoll.entry_price)
            \/ /\ C8_McapKnown
               /\ (lastPoll.mcap - lastPoll.entry_mcap) * 100
                      <= -(Abs(STOP_LOSS) * lastPoll.entry_mcap)

\* C9: in live mode a monitor that saw an exit condition fire has invoked
\* execute_sell before it finishes.
C9_ExitIssuesSell ==
    (lastEnd.ended /\ ~lastEnd.dry /\ lastEnd.trig # "none") => lastEnd.sellIssued

\* C10: when execute_sell returns None or raises, the monitor does not
\* terminate: the position stays under monitoring.
C10_FailedSellKeepsMonitoring ==
    ~(lastEnd.ended /\ lastEnd.sellIssued /\ lastEnd.sellResult \in {"None", "raised"})

\* C11: for a completed buy-then-sell cycle of one position, the persisted
\* balance after the close equals the balance before the buy (0 for the first
\* position) plus realized_profit = net proceeds - net invested amount.
C11_SingleCycleClosed ==
    /\ lastEnd.ended /\ lastEnd.closes >= 1
    /\ daily_trades = 1 /\ buyExecuted[lastEnd.ca] = 1
    /\ lastEnd.dry => Len(SIM_STATE.history) = 1
C11_NetProceeds ==
    IF lastEnd.dry THEN SIM_STATE.history[1].usd_out
    ELSE records[lastEnd.ca].sell[1].usd_amount_net
C11_BalanceIsRealizedProfit ==
    C11_SingleCycleClosed
    => posState.current_balance_usd = 0 + (C11_NetProceeds - usd_amount_net)

\* C12: the compounding balance is mutated only by a step that closes a
\* position; no step of the buy path or of the execution gateway changes it.
C12_BalanceOnlyOnClose ==
    [][posState' # posState => (lastEnd'.ended /\ lastEnd'.closes >= 1)]_vars

\* C13: dry-run and live mode drive the same bookkeeping: a close performs
\* record_sell (a sell entry in the trade records) and update_compound_balance
\* (a change of the position state) in dry-run mode as it does in live mode.
C13_SameLedgerOps ==
    [][(lastEnd'.ended /\ lastEnd'.closes >= 1)
        => (records'[lastEnd'.ca].sell # <<>> /\ posState' # posState)]_vars

\* C14: a buy or a sell that runs in dry-run mode sends no request to the
\* order or execute endpoint of the swap provider.
C14_DryRunNoProviderRequest ==
    lastEnd.requested => IF lastEnd.sellIssued THEN ~SellDryRun ELSE ~BuyDryRun

\* C15: positions are processed strictly sequentially: at most one position is
\* open (bought, its monitor still running) in every reachable state.
C15_OnePositionOpen == Len(monitors) <= 1

\* C16: a closed position is immutable: once a history record has its exit
\* set (usd_out / result), no later step modifies, removes or reopens it, so
\* each record is closed at most once, also when two monitor tasks run for
\* the same address.
C16_ClosedIsImmutable ==
    [][\A i \in 1..Len(SIM_STATE.history) :
          SIM_STATE.history[i].usd_out # None
          => /\ Len(SIM_STATE'.history) >= i
             /\ SIM_STATE'.history[i] = SIM_STATE.history[i]]_vars
\* two monitor tasks of one address have both closed a record of that address
C16_TwoMonitorsClosed ==
    /\ lastEnd.ended /\ lastEnd.dry
    /\ Len(SIM_STATE.history) = 2
    /\ \A i \in 1..2 : /\ SIM_STATE.history[i].ca = lastEnd.ca
                       /\ SIM_STATE.history[i].usd_out # None

\* C17: the day reset zeroes the positions-opened counter and clears the
\* processed-address set (the cycle index it should advance has no counterpart
\* in the program: CYCLE_LIMIT is parsed and never read).
C17_ResetClearsCycle ==
    [][lastCycleDate' # lastCycleDate
        => (daily_trades' = 0 /\ processed' = {})]_vars

\* C18: after every day boundary the daily counters (daily_trades and the
\* simulated buys_today) are eventually reset while the bot keeps running.
C18_CountersEventuallyReset ==
    (today # lastCycleDate) ~> (lastCycleDate = today /\ SIM_STATE.buys_today = 0)

\* C19: after an interrupted write of position_state.json the loader returns,
\* on restart, the last fully written snapshot or the default state, never a
\* partially parsed value.
C19_LoaderSnapshotOrDefault ==
    fs.last.loaded
    => \/ fs.last.state = posState
       \/ fs.last.state = load_position_state_default
\* the loader has run on a file whose write was interrupted after a snapshot
\* had been fully written before
C19_LoadedAfterInterruptedWrite ==
    /\ fs.last.loaded
    /\ fs.file # <<>> /\ ~json_valid(fs.file)
    /\ posState # load_position_state_default

\* C20: a write of persisted state is atomic: a crash in the middle of a save
\* leaves the previously saved snapshot intact and loadable.
C20_CrashKeepsSnapshot ==
    fs.mode = "crashed" => load_position_state(fs.file) = posState

\* C21: the processed-address set only grows: whenever no write is in
\* progress, every address for which save_processed_ca has returned is still
\* reported by is_ca_processed, also after a failed read of the file.
C21_ProcessedOnlyGrows ==
    fs.mode = "idle" => \A ca \in fs.marked : is_ca_processed(ca)

\* C22: the trade history is append-only: no step changes or replaces an
\* entry already recorded for an address (buy or sell), and the buy entry
\* written by the execution step of a trade is the one the history holds
\* when the worker has finished recording that trade.
C22_AppendOnly ==
    [][\A ca \in CAs :
          /\ records[ca].buy # <<>> => records'[ca].buy = records[ca].buy
          /\ records[ca].sell # <<>> => records'[ca].sell = records[ca].sell
          /\ (w.pc = "swap" /\ w.ca = ca /\ records[ca].buy = <<>>
              /\ buyExecuted'[ca] > buyExecuted[ca])
             => records'[ca].buy = SwapRecords[ca].buy]_vars

\* C23: every address the worker takes from the queue is in the processed set
\* when the worker moves on to the next one, whichever way the iteration
\* ended: bought, skipped by a filter, buy failed, or an exception while the
\* buy was recorded.
C23_TakenIsProcessed ==
    [][(w.pc \in {"fetch", "swap"} /\ w'.pc = "idle") => w.ca \in processed']_vars

\* C25: in a dry run, when the simulated balance is below the buy amount the
\* position is not opened: no buy is recorded, no monitor task is started and
\* the balances stay as they were.
C25_UncoveredBuyNotOpened ==
    [][(w.pc = "swap" /\ w'.pc = "idle" /\ SniperDryRun
        /\ SIM_STATE.balance < usd_amount_net)
        => /\ records' = records
           /\ monitors' = monitors
           /\ SIM_STATE' = SIM_STATE
           /\ posState' = posState]_vars

\* C28: a task cancelled while awaiting never leaves the books inconsistent:
\* after a cancelled monitor whose sell went out the sell is in the ledger,
\* and after a cancelled worker whose buy went out the address is marked
\* processed.
C28_CancelKeepsBooks ==
    /\ lastEnd.cancel = "sell" => lastEnd.closes >= 1
    /\ lastEnd.cancel = "buy" => lastEnd.ca \in processed

\* C24: the amount invested in a position is computed from the bankroll
\* balance at that moment, max(balance * (1 - reserve_fraction), floor_amount)
\* with the fee percentage as the reserved fraction: the amount of every buy
\* is positive and at least the unreserved part of the current balance.
C24_SizedFromBalance ==
    [][(w.pc = "swap" /\ Len(monitors') = Len(monitors) + 1)
        => LET amount == monitors'[Len(monitors')].usd_in
               unreserved == (posState.current_balance_usd
                              * (100 - BUY_FEE_PERCENT)) \div 100
           IN amount > 0 /\ amount >= unreserved]_vars

\* C26: a failure of the notification sink never changes the trading flow:
\* whether send_telegram_message succeeds, returns False or raises after a
\* buy, the step writes the same buy record, processed mark, trade count and
\* simulated buy, and spawns the monitor.
C26_NotifyFailureHarmless ==
    [][lastEnd'.notify # "none"
        => /\ records'[w.ca].buy
                = <<BuyEntry(w.mcap, usd_amount_gross, usd_amount_net)>>
           /\ w.ca \in processed'
           /\ daily_trades' = daily_trades + 1
           /\ SIM_STATE' = IF SniperDryRun
                           THEN record_buy_demo(SIM_STATE, w.ca, w.price, w.mcap)
                           ELSE SIM_STATE
           /\ monitors' = Append(monitors, NewMonitor(w.ca, w.price))]_vars

\* C26 witness: a buy whose notification raised, with its buy record written
\* and its monitor running
C26_BoughtWithFailedNotify ==
    /\ lastEnd.notify = "raise"
    /\ records[lastEnd.ca].buy # <<>>
    /\ lastEnd.ca \in processed
    /\ \E i \in 1..Len(monitors) : monitors[i].ca = lastEnd.ca

\* C27: every state transition of a position (buy executed, position closed
\* as a win or a loss) and every failure after the retries ran out (buy or
\* sell) produces exactly one notification.
C27_OneNotificationPerTransition ==
    (\/ lastEnd.notify # "none"
     \/ lastEnd.closes >= 1
     \/ lastEnd.orders > 0
     \/ (lastEnd.sellIssued /\ lastEnd.sellResult = "None"))
    => lastEnd.sent = 1

\* C29: buy and sell follow the same retry policy: a call in which every
\* attempt failed has made three attempts of the whole order-and-execute step
\* (a failed order fetch is retried like a failed execute) and has then
\* returned None to its caller instead of raising.
C29_SameRetryPolicy ==
    lastEnd.orders > 0
    => lastEnd.orders = Cardinality(Attempts) /\ lastEnd.sellResult # "raised"

\* C30: in live mode, when the execute endpoint reports success for a sell,
\* execute_sell writes the balance and the trade record exactly once, posts no
\* further execute request and returns the transaction signature.
C30_LiveSellOnce ==
    (lastEnd.sellIssued /\ ~SellDryRun /\ lastEnd.closes >= 1)
    => lastEnd.closes = 1 /\ lastEnd.sellResult = "sig"

\* C31: the buy fee is applied exactly once per buy: the lamport amount of a
\* submitted buy order is the lamport value of DAILY_CAPITAL_USD reduced by
\* BUY_FEE_PERCENT one time.
C31_FeeAppliedOnce ==
    [][(w.pc = "swap" /\ lastEnd'.requested)
        => swap_in_amount
             = usd_to_lamports((DAILY_CAPITAL_USD * (100 - BUY_FEE_PERCENT)) \div 100)]_vars

\* C32: update_compound_balance keeps the accumulated balance and adds the
\* profit when the stored last_daily_capital equals DAILY_CAPITAL_USD, starts
\* again from balance 0 and cycle 0 before adding the profit only when it
\* differs, and raises the cycle counter by exactly one per call.
C32_CompoundUpdate ==
    fs.last.loaded
    => LET old == fs.last.state IN
       \E profit \in Profits :
          posState = IF old.last_daily_capital = DAILY_CAPITAL_USD
                     THEN [current_balance_usd |-> old.current_balance_usd + profit,
                           cycle |-> old.cycle + 1,
                           last_daily_capital |-> DAILY_CAPITAL_USD]
                     ELSE [current_balance_usd |-> profit,
                           cycle |-> 1,
                           last_daily_capital |-> DAILY_CAPITAL_USD]

\* C32 witness: an update that found a balance saved under another
\* DAILY_CAPITAL_USD and started again from zero
C32_ResetOnChangedCapital ==
    /\ fs.last.loaded
    /\ fs.last.state.last_daily_capital \notin {None, DAILY_CAPITAL_USD}
    /\ fs.last.state.current_balance_usd # 0
    /\ fs.last.state.cycle = 2
    /\ posState.cycle = 1

C34_WorkerContinues ==
    /\ [](w.pc \in {"idle", "fetch", "swap"})
    /\ (queue # <<>>) ~> (queue = <<>> /\ w.pc = "idle")

\* C34 witness: the worker has just finished a regular buy of one address
\* after the iteration of another address raised while recording its buy
C34_ProcessedAfterException ==
    /\ lastEnd.notify # "none"
    /\ lastEnd.ca \in processed
    /\ w.pc = "idle"
    /\ \E ca \in CAs \ {lastEnd.ca} : buyExecuted[ca] > 0 /\ ca \notin processed

\* C35: all parts of the program agree on whether the run is simulated: once
\* a buy was made or a monitor has ended, the buy, the monitor and the sell
\* have read DRY_RUN the same way, so no live buy is followed by a simulated
\* sell or the reverse.
C35_ModesAgree ==
    (lastEnd.ended \/ lastEnd.notify # "none")
    => /\ BuyDryRun = SniperDryRun
       /\ SellDryRun = SniperDryRun

\* sums over the simulation history: usd_in of every record, usd_out of the
\* closed ones, and the number of closed records
RECURSIVE SumUsdIn(_)
SumUsdIn(hist) ==
    IF hist = <<>> THEN 0 ELSE Head(hist).usd_in + SumUsdIn(Tail(hist))

RECURSIVE SumUsdOut(_)
SumUsdOut(hist) ==
    IF hist = <<>> THEN 0
    ELSE (IF Head(hist).usd_out = None THEN 0 ELSE Head(hist).usd_out)
         + SumUsdOut(Tail(hist))

ClosedRecords(hist) == {i \in 1..Len(hist) : hist[i].usd_out # None}

\* C36: in a dry run the simulated balance is conserved: it equals the
\* starting balance minus the usd_in of every history record plus the usd_out
\* of every closed record, so no close credits a position that was never
\* debited.
C36_SimBalanceConserved ==
    \E start \in ResumedBalances :
       SIM_STATE.balance = start - SumUsdIn(SIM_STATE.history)
                                 + SumUsdOut(SIM_STATE.history)

\* C37: in a dry run started from the initial simulation state, wins + losses
\* equals completed_trades, and completed_trades equals the number of history
\* records that have an exit.
C37_CountersMatchHistory ==
    /\ SIM_STATE.wins + SIM_STATE.losses = SIM_STATE.completed_trades
    /\ SIM_STATE.completed_trades = Cardinality(ClosedRecords(SIM_STATE.history))

\* C38: in a dry run the simulated balance is never negative: a buy is debited
\* only when the balance covers it (and then comes with its history record),
\* and every close credits a non-negative amount.
C38_SimBalanceNonNegative ==
    /\ [](SIM_STATE.balance >= 0)
    /\ [][/\ SIM_STATE'.balance < SIM_STATE.balance
             => /\ SIM_STATE.balance >= usd_amount_net
                /\ SIM_STATE'.balance = SIM_STATE.balance - usd_amount_net
                /\ SIM_STATE'.history
                     = Append(SIM_STATE.history,
                              SIM_STATE'.history[Len(SIM_STATE'.history)])
          /\ Len(monitors') < Len(monitors)
             => SIM_STATE'.balance >= SIM_STATE.balance]_vars

\* C38 witness: a buy was refused for lack of simulated balance (its monitor
\* has closed without a history record) and a later buy was just debited
C38_RefusedThenDebited ==
    /\ SniperDryRun
    /\ lastEnd.notify # "none"
    /\ SIM_STATE.completed_trades = 1
    /\ Len(SIM_STATE.history) = 1
    /\ SIM_STATE.history[1].usd_out = None
    /\ SIM_STATE.balance < usd_amount_net

\* C39: the simulation-state lock never blocks a task: after every step of
\* the worker and of the monitors SIM_LOCK is free and nobody waits for it
\* (no task awaits save_sim_state or requests the lock again while holding
\* it), and no task ever reached an await while holding it
C39_SimLockNeverBlocks ==
    /\ ~SIM_LOCK.locked
    /\ SIM_LOCK.waiters = <<>>
    /\ ~SIM_LOCK.heldAcrossAwait

\* a monitor closed the record of an accepted buy, saved the state and sent
\* the summary (five uses of the lock in one step) after the worker and an
\* earlier monitor had used the lock
C39_LockUsedByWorkerAndMonitors ==
    /\ lastEnd.ended /\ lastEnd.dry
    /\ lastEnd.locks >= 5
    /\ SIM_STATE.completed_trades = 2
    /\ \E i \in 1..Len(SIM_STATE.history) : SIM_STATE.history[i].usd_out # None
    /\ SIM_LOCK = FreeLock

============================================================================
